---- MODULE Spec2Model ----
(***************************************************************************)
(* A model of ShakeFetchApp (src/shakefetch/shakefetch.py): the tkinter    *)
(* main thread (button clicks, combobox selections, process_queue ticks),  *)
(* the daemon worker threads started by start_task, the task queue between *)
(* them, the profiles dictionary with its JSON file, and the OS keyring.   *)
(*                                                                         *)
(* Every main-thread handler is one atomic action (tkinter runs one        *)
(* callback at a time).  A worker thread takes one step per blocking call  *)
(* or queue put, so worker steps interleave with the main thread and with  *)
(* each other.                                                             *)
(*                                                                         *)
(* Eight next-state relations share the variables:                         *)
(*   ProfileSpec    - the Profile Management frame with the 14 entries a   *)
(*                    profile stores: the entries are state, typed into by *)
(*                    the user and rewritten by on_profile_select;         *)
(*   CredentialSpec - the same frame with the password entry, the          *)
(*                    "Remember SSH Credentials" box and the keyring;      *)
(*   Spec           - the whole workflow of the four tabs: the text an     *)
(*                    entry holds when a button is clicked is an input of  *)
(*                    the click (the user may have typed anything before); *)
(*   ConnSpec       - the Shake Connection tab alone;                      *)
(*   RemoteSpec     - the tabs that make remote calls;                     *)
(*   MultifetchSpec - the Multifetch tab alone, with the fairness of its   *)
(*                    worker thread and of the process_queue timer.        *)
(*   QueueSpec      - the Multifetch and MHVSR Analysis tabs, with the     *)
(*                    fairness of the process_queue timer;                 *)
(*   SingleFetchSpec- the Single Fetch tab beside the connection tab.      *)
(***************************************************************************)
EXTENDS Integers, Sequences, FiniteSets, Bags, TLC

\* ------------------------------------------------------------------ bounds
MaxThreads == 2      \* worker threads alive at once
MaxQueue == 1        \* the user clicks a button while fewer messages than this wait
MaxStations == 2     \* station rows generated on the Multifetch tab

\* ------------------------------------------------------------- vocabulary
NoneVal == "<None>"                       \* Python's None
ProfileNames == {"A", "B"}                \* texts typed as profile name
Passwords == {"p", "q"}                   \* texts typed as password
EditedTexts == {"", "x"}                  \* texts typed into an entry

EntryNames ==
    {"ts_host", "ts_username",
     "da_host", "da_port", "da_net", "da_sta", "da_loc", "da_cha",
     "mf_host", "mf_port", "mf_net", "mf_sta", "mf_loc", "mf_cha"}

\* The text each entry is created with; update_all_fields falls back to the
\* same texts for a key missing from a profile.
DefaultText(f) ==
    CASE f \in {"ts_host", "da_host", "mf_host"} -> "rs.local"
      [] f = "ts_username"                       -> "myshake"
      [] f \in {"da_port", "mf_port"}            -> "16032"
      [] f \in {"da_net", "mf_net"}              -> "AM"
      [] f \in {"da_sta", "mf_sta"}              -> "R1E3F"
      [] f \in {"da_loc", "mf_loc"}              -> "00"
      [] OTHER                                   -> "EH*"

VARIABLES
    \* --- Profile Management frame and what it persists
    entries,              \* the 14 entry widgets a profile stores: name -> text
    ts_password_entry,    \* the SSH password entry
    profile_name_entry,   \* "New Profile Name"
    remember_ssh_var,     \* the "Remember SSH Credentials" checkbox
    profile_selector,     \* the combobox's current value
    selector_values,      \* the combobox's value list
    profiles,             \* self.profiles: a dict, as its items in insertion order
    keyring,              \* the OS keyring for KEYRING_SERVICE: name -> password
    profiles_file,        \* PROFILES_FILE on disk
    \* --- connection, fetch and analysis workflow
    shake_communicator,   \* NoneVal or a ShakeCommunicator
    connect_button, sync_time_button, disconnect_button,
    ts_status,            \* the status label's text
    get_waveforms_button, mf_fetch_all_button,
    run_mhvsr_button, plot_mhvsr_button, save_mhvsr_button,
    station_widgets,      \* number of generated station rows
    mhvsr_files,          \* number of selected input files
    task_queue,           \* queue.Queue: messages in flight, oldest first
    threads,              \* the live worker threads: a bag of thread records
    timer,                \* whether root.after has process_queue scheduled
    \* --- observation
    lastEvent,            \* the main-thread handler that ran last and what it showed
    lastWrite,            \* how the last save_profiles_to_file ended
    savedForm,            \* name -> the entries as they were when it was last saved
    focus                 \* the profile entry the user edits in this run ("" before the first edit)

profileVars ==
    <<entries, ts_password_entry, profile_name_entry, remember_ssh_var,
      profile_selector, selector_values, profiles, keyring, profiles_file,
      lastWrite, savedForm, focus>>

tsVars ==
    <<shake_communicator, connect_button, sync_time_button, disconnect_button, ts_status>>

fetchVars == <<get_waveforms_button, mf_fetch_all_button, station_widgets>>

mhvsrVars == <<run_mhvsr_button, plot_mhvsr_button, save_mhvsr_button, mhvsr_files>>

workVars ==
    <<tsVars, fetchVars, mhvsrVars, task_queue, threads, timer>>

vars == <<profileVars, workVars, lastEvent>>

\* ------------------------------------------------- Python dict, JSON, keyring
\* A dict is the sequence of its <<key, value>> items in insertion order.
DictKeys(d) == [i \in 1..Len(d) |-> d[i][1]]

DictHas(d, k) == \E i \in 1..Len(d) : d[i][1] = k

DictGet(d, k) == d[CHOOSE i \in 1..Len(d) : d[i][1] = k][2]

\* d[k] = v: an existing key keeps its place, a new key goes last.
DictSet(d, k, v) ==
    IF DictHas(d, k)
    THEN [i \in 1..Len(d) |-> IF d[i][1] = k THEN <<k, v>> ELSE d[i]]
    ELSE Append(d, <<k, v>>)

\* del d[k]
DictDel(d, k) == SelectSeq(d, LAMBDA item : item[1] # k)

SeqToSet(s) == {s[i] : i \in 1..Len(s)}

\* json.dump(self.profiles, f): the object's members, written in dict order.
JsonDump(d) == [i \in 1..Len(d) |-> [key |-> d[i][1], value |-> d[i][2]]]

\* json.load(f): the members are read in order into a fresh dict.
RECURSIVE JsonLoad(_)
JsonLoad(text) ==
    IF text = <<>> THEN <<>>
    ELSE LET n == Len(text)
         IN  DictSet(JsonLoad(SubSeq(text, 1, n - 1)), text[n].key, text[n].value)

\* keyring.get_password: None when nothing is stored under the name.
KeyringGet(name) == IF name \in DOMAIN keyring THEN keyring[name] ELSE NoneVal

\* keyring.set_password
KeyringSet(name, password) ==
    [n \in (DOMAIN keyring) \cup {name} |-> IF n = name THEN password ELSE keyring[n]]

\* keyring.delete_password once it has found the entry (it raises
\* PasswordDeleteError without one; the callers test for that first).
KeyringDelete(name) == [n \in (DOMAIN keyring) \ {name} |-> keyring[n]]

\* Python truthiness of an Optional[str]
Truthy(s) == s # "" /\ s # NoneVal

Event(op, arg, out) == [op |-> op, arg |-> arg, out |-> out]

\* ---------------------------------------------------------- profile storage
\* load_profiles: what self.profiles and the combobox values are afterwards,
\* given what they were (the dict is {} and the list empty when __init__
\* calls it).
load_profiles(file, oldProfiles, oldValues) ==
    CASE file.state = "absent"  -> [profiles |-> oldProfiles, values |-> oldValues]
      [] file.state = "corrupt" -> [profiles |-> <<>>, values |-> oldValues]
      [] OTHER -> [profiles |-> JsonLoad(file.text),
                   values |-> DictKeys(JsonLoad(file.text))]

\* save_profiles_to_file: the file afterwards.  open() may fail (the file is
\* left as it was) and json.dump may fail half way (the file is truncated);
\* both are caught and reported with a "Profile Error" box.
save_profiles_to_file(d, outcome) ==
    CASE outcome = "ok"         -> [state |-> "ok", text |-> JsonDump(d)]
      [] outcome = "open_fails" -> profiles_file
      [] OTHER                  -> [state |-> "corrupt", text |-> <<>>]

WriteOutcomes == {"ok", "open_fails", "dump_fails"}

WriteOut(outcome) == IF outcome = "ok" THEN <<>> ELSE <<"box:Profile Error">>

\* update_all_fields written with `data.get(key) or default`: an empty text
\* counts as missing.
update_all_fields_falsy(data) ==
    [f \in EntryNames |-> IF f \in DOMAIN data /\ data[f] # "" THEN data[f]
                          ELSE DefaultText(f)]

\* update_all_fields(data): every entry is rewritten from the profile, with
\* the default text for a key the profile lacks.
update_all_fields(data) ==
    [f \in EntryNames |-> IF f \in DOMAIN data THEN data[f] ELSE DefaultText(f)]

\* The password entry after on_profile_select has asked the keyring.
PasswordAfterSelect(name) ==
    IF Truthy(KeyringGet(name)) THEN KeyringGet(name) ELSE ts_password_entry

\* on_profile_select: the user picks `name` from the combobox's list.
on_profile_select(name) ==
    /\ name \in SeqToSet(selector_values)
    /\ profile_selector' = name
    /\ IF DictHas(profiles, name)
       THEN /\ entries' = update_all_fields(DictGet(profiles, name))
            /\ ts_password_entry' = PasswordAfterSelect(name)
            /\ lastEvent' = Event("on_profile_select", name, <<"log:Loaded profile">>)
       ELSE /\ UNCHANGED <<entries, ts_password_entry>>
            /\ lastEvent' = Event("on_profile_select", name, <<>>)
    /\ UNCHANGED <<profile_name_entry, remember_ssh_var, selector_values, profiles,
                   keyring, profiles_file, lastWrite, savedForm, focus, workVars>>

\* save_profile without its else branch: unticking the box leaves the keyring alone.
SaveKeyring_keeps(name) ==
    IF remember_ssh_var /\ Truthy(ts_password_entry)
    THEN [keyring |-> KeyringSet(name, ts_password_entry),
          out |-> <<"log:Saved password">>]
    ELSE [keyring |-> keyring, out |-> <<>>]

\* The keyring part of save_profile: the keyring afterwards, and what is logged.
SaveKeyring(name) ==
    IF remember_ssh_var
    THEN IF Truthy(ts_password_entry)
         THEN [keyring |-> KeyringSet(name, ts_password_entry),
               out |-> <<"log:Saved password">>]
         ELSE [keyring |-> keyring, out |-> <<>>]
    ELSE IF name \in DOMAIN keyring
         THEN [keyring |-> KeyringDelete(name), out |-> <<"log:Deleted password">>]
         ELSE [keyring |-> keyring, out |-> <<"log:No password found">>]

\* save_profile
save_profile(outcome) ==
    LET name == profile_name_entry
        kr == SaveKeyring(name)
        newProfiles == DictSet(profiles, name, entries)
    IN  IF ~Truthy(name)
        THEN /\ lastEvent' = Event("save_profile", name, <<"box:Input Error">>)
             /\ UNCHANGED <<profileVars, workVars>>
        ELSE /\ profiles' = newProfiles
             /\ keyring' = kr.keyring
             /\ profiles_file' = save_profiles_to_file(newProfiles, outcome)
             /\ lastWrite' = outcome
             /\ selector_values' = DictKeys(newProfiles)
             /\ profile_selector' = name
             /\ savedForm' = [savedForm EXCEPT ![name] = <<entries>>]
             /\ lastEvent' = Event("save_profile", name,
                                   kr.out \o WriteOut(outcome) \o <<"box:Success">>)
             /\ UNCHANGED <<entries, ts_password_entry, profile_name_entry,
                            remember_ssh_var, focus, workVars>>

\* delete_profile without its keyring.delete_password call.
DeleteKeyring_keeps(name) == [keyring |-> keyring, out |-> <<>>]

\* delete_profile without the line that refreshes the combobox's value list.
delete_profile_stale_list(confirmed, outcome) ==
    LET name == profile_selector
        newProfiles == DictDel(profiles, name)
    IN  /\ Truthy(name) /\ confirmed /\ DictHas(profiles, name)
        /\ profiles' = newProfiles
        /\ keyring' = IF name \in DOMAIN keyring THEN KeyringDelete(name) ELSE keyring
        /\ profiles_file' = save_profiles_to_file(newProfiles, outcome)
        /\ lastWrite' = outcome
        /\ profile_selector' = ""
        /\ profile_name_entry' = ""
        /\ savedForm' = [savedForm EXCEPT ![name] = <<>>]
        /\ lastEvent' = Event("delete_profile", name,
                              <<"box:Confirm Delete:yes">> \o WriteOut(outcome)
                              \o <<"box:Success">>)
        /\ UNCHANGED <<selector_values, entries, ts_password_entry, remember_ssh_var,
                       focus, workVars>>

\* The keyring part of delete_profile: PasswordDeleteError is passed over.
DeleteKeyring(name) ==
    IF name \in DOMAIN keyring
    THEN [keyring |-> KeyringDelete(name), out |-> <<"log:Deleted password">>]
    ELSE [keyring |-> keyring, out |-> <<>>]

\* delete_profile; `confirmed` is the answer to the askyesno box.
delete_profile(confirmed, outcome) ==
    LET name == profile_selector
        newProfiles == DictDel(profiles, name)
    IN  IF ~Truthy(name)
        THEN /\ lastEvent' = Event("delete_profile", name, <<"box:Selection Error">>)
             /\ UNCHANGED <<profileVars, workVars>>
        ELSE IF confirmed /\ DictHas(profiles, name)
        THEN /\ profiles' = newProfiles
             /\ keyring' = DeleteKeyring(name).keyring
             /\ profiles_file' = save_profiles_to_file(newProfiles, outcome)
             /\ lastWrite' = outcome
             /\ selector_values' = DictKeys(newProfiles)
             /\ profile_selector' = ""
             /\ profile_name_entry' = ""
             /\ savedForm' = [savedForm EXCEPT ![name] = <<>>]
             /\ lastEvent' = Event("delete_profile", name,
                                   <<"box:Confirm Delete:yes">> \o DeleteKeyring(name).out
                                   \o WriteOut(outcome) \o <<"box:Success">>)
             /\ UNCHANGED <<entries, ts_password_entry, remember_ssh_var, focus, workVars>>
        ELSE /\ lastEvent' = Event("delete_profile", name,
                                   <<IF confirmed THEN "box:Confirm Delete:yes"
                                                  ELSE "box:Confirm Delete:no">>)
             /\ UNCHANGED <<profileVars, workVars>>

\* The user types into one of the 14 entries a profile stores.  A run edits
\* one of them, any of the 14, as often as it likes.
EditEntry(f, text) ==
    /\ focus \in {"", f}
    /\ entries[f] # text
    /\ entries' = [entries EXCEPT ![f] = text]
    /\ focus' = f
    /\ lastEvent' = Event("edit", "", <<>>)
    /\ UNCHANGED <<ts_password_entry, profile_name_entry, remember_ssh_var,
                   profile_selector, selector_values, profiles, keyring, profiles_file,
                   lastWrite, savedForm, workVars>>

\* The user types into the password entry.
EditPassword(text) ==
    /\ ts_password_entry # text
    /\ ts_password_entry' = text
    /\ lastEvent' = Event("edit", "", <<>>)
    /\ UNCHANGED <<entries, profile_name_entry, remember_ssh_var, profile_selector,
                   selector_values, profiles, keyring, profiles_file, lastWrite,
                   savedForm, focus, workVars>>

\* The user types into "New Profile Name".
EditProfileName(text) ==
    /\ profile_name_entry # text
    /\ profile_name_entry' = text
    /\ lastEvent' = Event("edit", "", <<>>)
    /\ UNCHANGED <<entries, ts_password_entry, remember_ssh_var, profile_selector,
                   selector_values, profiles, keyring, profiles_file, lastWrite,
                   savedForm, focus, workVars>>

\* The user ticks or unticks "Remember SSH Credentials".
ToggleRemember ==
    /\ remember_ssh_var' = ~remember_ssh_var
    /\ lastEvent' = Event("edit", "", <<>>)
    /\ UNCHANGED <<entries, ts_password_entry, profile_name_entry, profile_selector,
                   selector_values, profiles, keyring, profiles_file, lastWrite,
                   savedForm, focus, workVars>>

\* ----------------------------------------------------------------- __init__

Init ==
    /\ entries = [f \in EntryNames |-> DefaultText(f)]
    /\ ts_password_entry = ""
    /\ profile_name_entry = ""
    /\ remember_ssh_var = TRUE
    /\ profile_selector = ""
    /\ keyring = [n \in {} |-> ""]
    /\ profiles_file = [state |-> "absent", text |-> <<>>]
    /\ profiles = load_profiles(profiles_file, <<>>, <<>>).profiles
    /\ selector_values = load_profiles(profiles_file, <<>>, <<>>).values
    /\ shake_communicator = NoneVal
    /\ connect_button = "normal"
    /\ sync_time_button = "disabled"
    /\ disconnect_button = "disabled"
    /\ ts_status = "Idle"
    /\ get_waveforms_button = "normal"
    /\ mf_fetch_all_button = "normal"
    /\ run_mhvsr_button = "normal"
    /\ plot_mhvsr_button = "disabled"
    /\ save_mhvsr_button = "disabled"
    /\ station_widgets = 0
    /\ mhvsr_files = 0
    /\ task_queue = <<>>
    /\ threads = EmptyBag
    /\ timer = TRUE
    /\ lastEvent = Event("__init__", "", <<>>)
    /\ lastWrite = "none"
    /\ savedForm = [n \in ProfileNames |-> <<>>]
    /\ focus = ""

\* The Profile Management frame as a store of the 14 entries.
ProfileNext ==
    \/ \E f \in EntryNames, text \in EditedTexts : EditEntry(f, text)
    \/ \E text \in ProfileNames \cup {""} : EditProfileName(text)
    \/ \E outcome \in WriteOutcomes : save_profile(outcome)
    \/ \E confirmed \in BOOLEAN, outcome \in WriteOutcomes : delete_profile(confirmed, outcome)
    \/ \E name \in ProfileNames : on_profile_select(name)

ProfileSpec == Init /\ [][ProfileNext]_vars

\* The Profile Management frame as a store of SSH passwords.
CredentialNext ==
    \/ \E text \in Passwords \cup {""} : EditPassword(text)
    \/ \E text \in ProfileNames \cup {""} : EditProfileName(text)
    \/ ToggleRemember
    \/ \E outcome \in WriteOutcomes : save_profile(outcome)
    \/ \E confirmed \in BOOLEAN, outcome \in WriteOutcomes : delete_profile(confirmed, outcome)
    \/ \E name \in ProfileNames : on_profile_select(name)

CredentialSpec == Init /\ [][CredentialNext]_vars

\* ------------------------------------------------------ threads and queue
\* The first statement of each worker function.
FirstPc(kind) ==
    CASE kind = "fetch_waveforms" -> "announce"
      [] kind = "multifetch"      -> "dir"
      [] OTHER                    -> "call"

\* A worker thread: the worker function it runs, where it is in it, what its
\* remote call did (res), how often it has invoked the remote call (calls),
\* and for multifetch_worker the length of all_params (n) and the station it
\* is at (i).
Thread(kind, n) ==
    [kind |-> kind, pc |-> FirstPc(kind), res |-> "", calls |-> 0, n |-> n, i |-> 0]

\* start_task(worker_func, *args): one more daemon thread.
start_task(kind, n) == threads (+) SetToBag({Thread(kind, n)})

\* Thread t goes on as record u.
ThreadMoves(t, u) == (threads (-) SetToBag({t})) (+) SetToBag({u})

\* Thread t returns (or dies): it is gone.
ThreadEnds(t) == threads (-) SetToBag({t})

Live == BagToSet(threads)

Msg(handler, arg) == [handler |-> handler, arg |-> arg]

\* A click the model goes on to follow: the button is enabled, and the user
\* waits while MaxThreads workers run or MaxQueue messages wait.
CanClick(button) ==
    /\ button = "normal"
    /\ BagCardinality(threads) < MaxThreads
    /\ Len(task_queue) < MaxQueue

\* Texts an entry may hold when a button reads it.
EntryTexts == {"", "x"}
PortTexts == {"16032", "abc"}
TimeTexts == {"2024-01-01T00:00:00", "soon"}

\* int(text) returns rather than raising ValueError.
IsIntText(text) == text \in {"16032"}

\* UTCDateTime(text) returns rather than raising.
IsTimeText(text) == text \in {"2024-01-01T00:00:00"}

\* ------------------------------------------------------- Shake Connection tab
\* run_connect without the line that disables the Connect button.
run_connect_keeps_button(host, username, password) ==
    /\ CanClick(connect_button)
    /\ IF ~(Truthy(host) /\ Truthy(username) /\ Truthy(password))
       THEN /\ lastEvent' = Event("run_connect", "", <<"box:All fields are required.">>)
            /\ UNCHANGED <<tsVars, threads>>
       ELSE /\ shake_communicator' = "ShakeCommunicator"
            /\ ts_status' = "Connecting..."
            /\ threads' = start_task("connect", 0)
            /\ lastEvent' = Event("run_connect", "", <<>>)
            /\ UNCHANGED <<connect_button, sync_time_button, disconnect_button>>
    /\ UNCHANGED <<profileVars, fetchVars, mhvsrVars, task_queue, timer>>

\* run_connect with the test written `all([host, username])`.
run_connect_no_password_check(host, username, password) ==
    /\ CanClick(connect_button)
    /\ IF ~(Truthy(host) /\ Truthy(username))
       THEN /\ lastEvent' = Event("run_connect", "", <<"box:All fields are required.">>)
            /\ UNCHANGED <<tsVars, threads>>
       ELSE /\ shake_communicator' = "ShakeCommunicator"
            /\ connect_button' = "disabled"
            /\ ts_status' = "Connecting..."
            /\ threads' = start_task("connect", 0)
            /\ lastEvent' = Event("run_connect", "", <<>>)
            /\ UNCHANGED <<sync_time_button, disconnect_button>>
    /\ UNCHANGED <<profileVars, fetchVars, mhvsrVars, task_queue, timer>>

\* run_connect, with the three entries holding host, username, password.
run_connect(host, username, password) ==
    /\ CanClick(connect_button)
    /\ IF ~(Truthy(host) /\ Truthy(username) /\ Truthy(password))
       THEN /\ lastEvent' = Event("run_connect", "", <<"box:All fields are required.">>)
            /\ UNCHANGED <<tsVars, threads>>
       ELSE /\ shake_communicator' = "ShakeCommunicator"
            /\ connect_button' = "disabled"
            /\ ts_status' = "Connecting..."
            /\ threads' = start_task("connect", 0)
            /\ lastEvent' = Event("run_connect", "", <<>>)
            /\ UNCHANGED <<sync_time_button, disconnect_button>>
    /\ UNCHANGED <<profileVars, fetchVars, mhvsrVars, task_queue, timer>>

\* connect_worker with a second attempt after a connect() that did not succeed.
connect_call_retry(t, outcome) ==
    /\ t.kind = "connect" /\ t.pc = "call"
    /\ threads' = ThreadMoves(t,
          IF shake_communicator = NoneVal
          THEN [t EXCEPT !.pc = "put", !.res = "raise"]
          ELSE [t EXCEPT !.pc = "put", !.res = outcome,
                         !.calls = IF outcome = "ok" THEN @ + 1 ELSE @ + 2])
    /\ UNCHANGED <<profileVars, tsVars, fetchVars, mhvsrVars, task_queue, timer, lastEvent>>

\* connect_worker up to the return of connect(): `outcome` is what connect()
\* does; with no communicator the attribute lookup raises before any call.
connect_call(t, outcome) ==
    /\ t.kind = "connect" /\ t.pc = "call"
    /\ threads' = ThreadMoves(t,
          IF shake_communicator = NoneVal
          THEN [t EXCEPT !.pc = "put", !.res = "raise"]
          ELSE [t EXCEPT !.pc = "put", !.res = outcome, !.calls = @ + 1])
    /\ UNCHANGED <<profileVars, tsVars, fetchVars, mhvsrVars, task_queue, timer, lastEvent>>

\* connect_worker from the logging call on: both branches format
\* self.shake_communicator.host before the put, so with no communicator the
\* thread dies in its except clause without a message.
connect_put(t) ==
    /\ t.kind = "connect" /\ t.pc = "put"
    /\ threads' = ThreadEnds(t)
    /\ IF shake_communicator = NoneVal
       THEN UNCHANGED task_queue
       ELSE task_queue' = Append(task_queue,
                IF t.res = "raise" THEN Msg("handle_error", "Connection Error")
                ELSE Msg("on_connect_result", t.res))
    /\ UNCHANGED <<profileVars, tsVars, fetchVars, mhvsrVars, timer, lastEvent>>

\* What connect() returns, character by character, for each way it can
\* return; which texts the device module produces is not fixed by this file.
ResultText(res) ==
    CASE res = "ok" -> <<"L", "o", "g", "i", "n", " ",
                         "s", "u", "c", "c", "e", "s", "s", "f", "u", "l">>
      [] res = "OK" -> <<"S", "U", "C", "C", "E", "S", "S", "F", "U", "L", "!">>
      [] res = "un" -> <<"u", "n", "s", "u", "c", "c", "e", "s", "s", "f", "u", "l">>
      [] OTHER      -> <<"f", "a", "i", "l", "e", "d">>

\* str.lower(), on the letters the texts use.
LowerChar(c) ==
    CASE c = "L" -> "l" [] c = "S" -> "s" [] c = "U" -> "u" [] c = "C" -> "c"
      [] c = "E" -> "e" [] c = "F" -> "f" [] OTHER -> c

LowerText(text) == [i \in 1..Len(text) |-> LowerChar(text[i])]

\* pat in text
Contains(text, pat) ==
    \E i \in 1..(Len(text) - Len(pat) + 1) : SubSeq(text, i, i + Len(pat) - 1) = pat

Successful == <<"s", "u", "c", "c", "e", "s", "s", "f", "u", "l">>

\* on_connect_result with the test written `"successful" in result`.
on_connect_result_case_sensitive(res) ==
    /\ IF Contains(ResultText(res), Successful)
       THEN /\ ts_status' = "Connected"
            /\ sync_time_button' = "normal"
            /\ disconnect_button' = "normal"
            /\ connect_button' = "disabled"
            /\ UNCHANGED shake_communicator
       ELSE /\ ts_status' = "Failed"
            /\ connect_button' = "normal"
            /\ shake_communicator' = NoneVal
            /\ UNCHANGED <<sync_time_button, disconnect_button>>
    /\ UNCHANGED <<fetchVars, mhvsrVars>>

\* on_connect_result(result)
on_connect_result(res) ==
    /\ IF Contains(LowerText(ResultText(res)), Successful)
       THEN /\ ts_status' = "Connected"
            /\ sync_time_button' = "normal"
            /\ disconnect_button' = "normal"
            /\ connect_button' = "disabled"
            /\ UNCHANGED shake_communicator
       ELSE /\ ts_status' = "Failed"
            /\ connect_button' = "normal"
            /\ shake_communicator' = NoneVal
            /\ UNCHANGED <<sync_time_button, disconnect_button>>
    /\ UNCHANGED <<fetchVars, mhvsrVars>>

\* run_disconnect
run_disconnect ==
    /\ CanClick(disconnect_button)
    /\ disconnect_button' = "disabled"
    /\ sync_time_button' = "disabled"
    /\ ts_status' = "Disconnecting..."
    /\ threads' = start_task("disconnect", 0)
    /\ lastEvent' = Event("run_disconnect", "", <<>>)
    /\ UNCHANGED <<profileVars, shake_communicator, connect_button, fetchVars, mhvsrVars,
                   task_queue, timer>>

\* disconnect_worker up to the return of disconnect().
disconnect_call(t, outcome) ==
    /\ t.kind = "disconnect" /\ t.pc = "call"
    /\ threads' = ThreadMoves(t,
          IF shake_communicator = NoneVal
          THEN [t EXCEPT !.pc = "put", !.res = "raise"]
          ELSE [t EXCEPT !.pc = "put", !.res = outcome, !.calls = @ + 1])
    /\ UNCHANGED <<profileVars, tsVars, fetchVars, mhvsrVars, task_queue, timer, lastEvent>>

\* disconnect_worker's put.
disconnect_put(t) ==
    /\ t.kind = "disconnect" /\ t.pc = "put"
    /\ threads' = ThreadEnds(t)
    /\ task_queue' = Append(task_queue,
          IF t.res = "raise" THEN Msg("handle_error", "Disconnect Error")
          ELSE Msg("on_disconnect_result", t.res))
    /\ UNCHANGED <<profileVars, tsVars, fetchVars, mhvsrVars, timer, lastEvent>>

\* on_disconnect_result without its last line: the communicator is kept.
on_disconnect_result_keeps_communicator ==
    /\ ts_status' = "Disconnected"
    /\ connect_button' = "normal"
    /\ sync_time_button' = "disabled"
    /\ disconnect_button' = "disabled"
    /\ UNCHANGED <<shake_communicator, fetchVars, mhvsrVars>>

\* on_disconnect_result(result)
on_disconnect_result ==
    /\ ts_status' = "Disconnected"
    /\ connect_button' = "normal"
    /\ sync_time_button' = "disabled"
    /\ disconnect_button' = "disabled"
    /\ shake_communicator' = NoneVal
    /\ UNCHANGED <<fetchVars, mhvsrVars>>

\* run_sync_time
run_sync_time ==
    /\ CanClick(sync_time_button)
    /\ sync_time_button' = "disabled"
    /\ ts_status' = "Syncing time..."
    /\ threads' = start_task("set_time_utc", 0)
    /\ lastEvent' = Event("run_sync_time", "", <<>>)
    /\ UNCHANGED <<profileVars, shake_communicator, connect_button, disconnect_button,
                   fetchVars, mhvsrVars, task_queue, timer>>

\* sync_time_worker up to the return of set_time_utc(); "error" is a returned
\* text with "Error" in it.
sync_time_call(t, outcome) ==
    /\ t.kind = "set_time_utc" /\ t.pc = "call"
    /\ threads' = ThreadMoves(t,
          IF shake_communicator = NoneVal
          THEN [t EXCEPT !.pc = "put", !.res = "raise"]
          ELSE [t EXCEPT !.pc = "put", !.res = outcome, !.calls = @ + 1])
    /\ UNCHANGED <<profileVars, tsVars, fetchVars, mhvsrVars, task_queue, timer, lastEvent>>

\* sync_time_worker's put.
sync_time_put(t) ==
    /\ t.kind = "set_time_utc" /\ t.pc = "put"
    /\ threads' = ThreadEnds(t)
    /\ task_queue' = Append(task_queue,
          IF t.res = "raise" THEN Msg("handle_error", "Time Sync Error")
          ELSE Msg("on_sync_time_result", t.res))
    /\ UNCHANGED <<profileVars, tsVars, fetchVars, mhvsrVars, timer, lastEvent>>

\* on_sync_time_result(result)
on_sync_time_result(res) ==
    /\ sync_time_button' = "normal"
    /\ ts_status' = IF res = "error" THEN "Error" ELSE "Connected"
    /\ UNCHANGED <<shake_communicator, connect_button, disconnect_button,
                   fetchVars, mhvsrVars>>

\* ------------------------------------------------------------ Single Fetch tab
\* run_get_waveforms, with the port, start and end entries holding these texts.
run_get_waveforms(port, start, end) ==
    /\ CanClick(get_waveforms_button)
    /\ IF IsIntText(port) /\ IsTimeText(start) /\ IsTimeText(end)
       THEN /\ get_waveforms_button' = "disabled"
            /\ threads' = start_task("fetch_waveforms", 0)
            /\ lastEvent' = Event("run_get_waveforms", "", <<>>)
       ELSE /\ get_waveforms_button' = "normal"
            /\ lastEvent' = Event("run_get_waveforms", "", <<"box:Invalid input">>)
            /\ UNCHANGED <<threads>>
    /\ UNCHANGED <<profileVars, tsVars, mf_fetch_all_button, station_widgets, mhvsrVars,
                   task_queue, timer>>

\* get_waveforms_worker: the "Fetching waveforms for ..." put.
get_waveforms_announce(t) ==
    /\ t.kind = "fetch_waveforms" /\ t.pc = "announce"
    /\ threads' = ThreadMoves(t, [t EXCEPT !.pc = "call"])
    /\ task_queue' = Append(task_queue, Msg("update_da_output", ""))
    /\ UNCHANGED <<profileVars, tsVars, fetchVars, mhvsrVars, timer, lastEvent>>

\* get_waveforms_worker: fetch_waveforms(params) returns or raises.
get_waveforms_call(t, outcome) ==
    /\ t.kind = "fetch_waveforms" /\ t.pc = "call"
    /\ threads' = ThreadMoves(t, [t EXCEPT !.pc = "put", !.res = outcome, !.calls = @ + 1])
    /\ UNCHANGED <<profileVars, tsVars, fetchVars, mhvsrVars, task_queue, timer, lastEvent>>

\* get_waveforms_worker's last put.
get_waveforms_put(t) ==
    /\ t.kind = "fetch_waveforms" /\ t.pc = "put"
    /\ threads' = ThreadEnds(t)
    /\ task_queue' = Append(task_queue,
          IF t.res = "raise" THEN Msg("handle_error", "Waveform Fetch Error")
          ELSE Msg("finish_get_waveforms", ""))
    /\ UNCHANGED <<profileVars, tsVars, fetchVars, mhvsrVars, timer, lastEvent>>

\* finish_get_waveforms(stream): a failing stream.write is caught in place.
finish_get_waveforms ==
    /\ get_waveforms_button' = "normal"
    /\ UNCHANGED <<tsVars, mf_fetch_all_button, station_widgets, mhvsrVars>>

\* update_da_output(text) and update_mf_output(text): text into an output box.
update_output == UNCHANGED <<tsVars, fetchVars, mhvsrVars>>

\* ------------------------------------------------------------- Multifetch tab
\* generate_station_inputs: the rows are destroyed first; n < 0 stands for a
\* spinbox text that is no integer.
generate_station_inputs(n) ==
    /\ station_widgets' = IF n < 0 THEN 0 ELSE n
    /\ station_widgets' # station_widgets
    /\ lastEvent' = Event("generate_station_inputs", "",
                          IF n < 0 THEN <<"box:Input Error">> ELSE <<>>)
    /\ UNCHANGED <<profileVars, tsVars, get_waveforms_button, mf_fetch_all_button,
                   mhvsrVars, task_queue, threads, timer>>

\* run_multifetch, with the project name, project directory and port entries
\* holding these texts; `bad` is the first station whose start or end text
\* UTCDateTime rejects (0: none).
run_multifetch(name, dir, port, bad) ==
    /\ CanClick(mf_fetch_all_button)
    /\ bad \in 0..station_widgets
    /\ IF ~Truthy(name) \/ ~Truthy(dir)
       THEN /\ lastEvent' = Event("run_multifetch", "", <<"box:Project Name and Project Directory are required.">>)
            /\ UNCHANGED <<mf_fetch_all_button, threads>>
       ELSE IF station_widgets = 0
       THEN /\ lastEvent' = Event("run_multifetch", "", <<"box:Please generate station inputs first.">>)
            /\ UNCHANGED <<mf_fetch_all_button, threads>>
       ELSE IF ~IsIntText(port)
       THEN /\ lastEvent' = Event("run_multifetch", "", <<"box:Invalid Shake Connection Details">>)
            /\ UNCHANGED <<mf_fetch_all_button, threads>>
       ELSE IF bad # 0
       THEN /\ lastEvent' = Event("run_multifetch", "", <<"box:Invalid date/time for Station">>)
            /\ UNCHANGED <<mf_fetch_all_button, threads>>
       ELSE /\ mf_fetch_all_button' = "disabled"
            /\ threads' = start_task("multifetch", station_widgets)
            /\ lastEvent' = Event("run_multifetch", "", <<>>)
    /\ UNCHANGED <<profileVars, tsVars, get_waveforms_button, station_widgets, mhvsrVars,
                   task_queue, timer>>

\* multifetch_worker's first try block: os.path.exists(project_dir) is false
\* ("missing"), os.makedirs raises ("mkdir_fails"), or the directory is there.
multifetch_dir(t, outcome) ==
    /\ t.kind = "multifetch" /\ t.pc = "dir"
    /\ CASE outcome = "missing" ->
              /\ task_queue' = Append(task_queue, Msg("update_mf_output", ""))
              /\ threads' = ThreadEnds(t)
         [] outcome = "mkdir_fails" ->
              /\ task_queue' = Append(task_queue, Msg("handle_error", "Directory Error"))
              /\ threads' = ThreadEnds(t)
         [] OTHER ->
              /\ threads' = ThreadMoves(t, [t EXCEPT !.pc = "announce", !.i = 1])
              /\ UNCHANGED task_queue
    /\ UNCHANGED <<profileVars, tsVars, fetchVars, mhvsrVars, timer, lastEvent>>

\* multifetch_worker, top of the loop body: the "--- Fetching Station" put.
multifetch_announce(t) ==
    /\ t.kind = "multifetch" /\ t.pc = "announce"
    /\ threads' = ThreadMoves(t, [t EXCEPT !.pc = "fetch"])
    /\ task_queue' = Append(task_queue, Msg("update_mf_output", ""))
    /\ UNCHANGED <<profileVars, tsVars, fetchVars, mhvsrVars, timer, lastEvent>>

\* The output lines one station's try block puts.
StationPuts(outcome) ==
    IF outcome = "fetch_raises" THEN <<Msg("update_mf_output", "")>>
    ELSE <<Msg("update_mf_output", ""), Msg("update_mf_output", "")>>

\* multifetch_worker, the loop body's try block: fetch_waveforms and
\* stream.write, each returning or raising; the loop goes on either way.
multifetch_fetch(t, outcome) ==
    /\ t.kind = "multifetch" /\ t.pc = "fetch"
    /\ task_queue' = task_queue \o StationPuts(outcome)
    /\ threads' = ThreadMoves(t,
          [t EXCEPT !.calls = @ + 1,
                    !.pc = IF t.i < t.n THEN "announce" ELSE "finish",
                    !.i = IF t.i < t.n THEN @ + 1 ELSE @])
    /\ UNCHANGED <<profileVars, tsVars, fetchVars, mhvsrVars, timer, lastEvent>>

\* multifetch_worker's last line.
multifetch_finish(t) ==
    /\ t.kind = "multifetch" /\ t.pc = "finish"
    /\ threads' = ThreadEnds(t)
    /\ task_queue' = Append(task_queue, Msg("finish_multifetch", ""))
    /\ UNCHANGED <<profileVars, tsVars, fetchVars, mhvsrVars, timer, lastEvent>>

\* finish_multifetch(text)
finish_multifetch ==
    /\ mf_fetch_all_button' = "normal"
    /\ UNCHANGED <<tsVars, get_waveforms_button, station_widgets, mhvsrVars>>

\* ---------------------------------------------------------- MHVSR Analysis tab
\* select_mhvsr_files: the dialog returns n files; none leaves the list alone.
select_mhvsr_files(n) ==
    /\ n > 0
    /\ mhvsr_files # n
    /\ mhvsr_files' = n
    /\ lastEvent' = Event("select_mhvsr_files", "", <<>>)
    /\ UNCHANGED <<profileVars, tsVars, fetchVars, run_mhvsr_button, plot_mhvsr_button,
                   save_mhvsr_button, task_queue, threads, timer>>

\* run_mhvsr_analysis
run_mhvsr_analysis ==
    /\ CanClick(run_mhvsr_button)
    /\ IF mhvsr_files = 0
       THEN /\ lastEvent' = Event("run_mhvsr_analysis", "", <<"box:Please select input files first.">>)
            /\ UNCHANGED <<mhvsrVars, threads>>
       ELSE /\ run_mhvsr_button' = "disabled"
            /\ plot_mhvsr_button' = "disabled"
            /\ save_mhvsr_button' = "disabled"
            /\ threads' = start_task("mhvsr", 0)
            /\ lastEvent' = Event("run_mhvsr_analysis", "", <<>>)
            /\ UNCHANGED mhvsr_files
    /\ UNCHANGED <<profileVars, tsVars, fetchVars, task_queue, timer>>

\* mhvsr_worker up to the return of process_mhvsr: it returns, or it or the
\* parsing of the parameters before it raises.
mhvsr_call(t, outcome) ==
    /\ t.kind = "mhvsr" /\ t.pc = "call"
    /\ threads' = ThreadMoves(t, [t EXCEPT !.pc = "put", !.res = outcome, !.calls = @ + 1])
    /\ UNCHANGED <<profileVars, tsVars, fetchVars, mhvsrVars, task_queue, timer, lastEvent>>

\* mhvsr_worker's put.
mhvsr_put(t) ==
    /\ t.kind = "mhvsr" /\ t.pc = "put"
    /\ threads' = ThreadEnds(t)
    /\ task_queue' = Append(task_queue,
          IF t.res = "raise" THEN Msg("handle_error", "MHVSR Error")
          ELSE Msg("on_mhvsr_complete", ""))
    /\ UNCHANGED <<profileVars, tsVars, fetchVars, mhvsrVars, timer, lastEvent>>

\* on_mhvsr_complete(hvsr): the buttons are set before the summary is
\* computed, so a summary that raises leaves them set.
on_mhvsr_complete ==
    /\ run_mhvsr_button' = "normal"
    /\ plot_mhvsr_button' = "normal"
    /\ save_mhvsr_button' = "normal"
    /\ UNCHANGED <<tsVars, fetchVars, mhvsr_files>>

\* ------------------------------------------------------------- error handling
\* handle_error with the last branch testing a title no worker sends.
handle_error_fetch_title(title) ==
    /\ run_mhvsr_button' = "normal"
    /\ connect_button' = IF title \in {"Connection Error", "Disconnect Error"}
                         THEN "normal" ELSE connect_button
    /\ ts_status' = CASE title = "Connection Error" -> "Failed"
                      [] title = "Disconnect Error" -> "Disconnected"
                      [] title = "Time Sync Error"  -> "Error"
                      [] OTHER                      -> ts_status
    /\ sync_time_button' = IF title = "Time Sync Error" THEN "normal" ELSE sync_time_button
    /\ UNCHANGED <<shake_communicator, disconnect_button, get_waveforms_button,
                   mf_fetch_all_button, station_widgets, plot_mhvsr_button,
                   save_mhvsr_button, mhvsr_files>>

\* handle_error(title, error)
handle_error(title) ==
    /\ run_mhvsr_button' = "normal"
    /\ connect_button' = IF title \in {"Connection Error", "Disconnect Error"}
                         THEN "normal" ELSE connect_button
    /\ ts_status' = CASE title = "Connection Error" -> "Failed"
                      [] title = "Disconnect Error" -> "Disconnected"
                      [] title = "Time Sync Error"  -> "Error"
                      [] OTHER                      -> ts_status
    /\ sync_time_button' = IF title = "Time Sync Error" THEN "normal" ELSE sync_time_button
    /\ get_waveforms_button' = IF title = "Waveform Fetch Error"
                               THEN "normal" ELSE get_waveforms_button
    /\ UNCHANGED <<shake_communicator, disconnect_button, mf_fetch_all_button,
                   station_widgets, plot_mhvsr_button, save_mhvsr_button, mhvsr_files>>

\* message[0](*message[1:])
Dispatch(m) ==
    CASE m.handler = "on_connect_result"    -> on_connect_result(m.arg)
      [] m.handler = "on_disconnect_result" -> on_disconnect_result
      [] m.handler = "on_sync_time_result"  -> on_sync_time_result(m.arg)
      [] m.handler = "finish_get_waveforms" -> finish_get_waveforms
      [] m.handler = "finish_multifetch"    -> finish_multifetch
      [] m.handler = "on_mhvsr_complete"    -> on_mhvsr_complete
      [] m.handler = "handle_error"         -> handle_error(m.arg)
      [] OTHER                              -> update_output

\* process_queue with root.after at the end of the try block instead of in a
\* finally clause: a handler that raises is the last one dispatched.
process_queue_no_finally(raised) ==
    /\ timer
    /\ task_queue # <<>>
    /\ raised => Head(task_queue).handler = "on_mhvsr_complete"
    /\ task_queue' = Tail(task_queue)
    /\ Dispatch(Head(task_queue))
    /\ timer' = ~raised
    /\ lastEvent' = Event(Head(task_queue).handler, Head(task_queue).arg,
                          IF raised THEN <<"raised">>
                          ELSE IF Head(task_queue).handler = "handle_error"
                               THEN <<"box:" \o Head(task_queue).arg>> ELSE <<>>)
    /\ UNCHANGED <<profileVars, threads>>

\* process_queue with a message waiting: it is taken and its handler run;
\* the finally clause schedules the next tick whether or not the handler
\* raised (`raised`: on_mhvsr_complete's summary did).
process_queue(raised) ==
    /\ timer
    /\ task_queue # <<>>
    /\ raised => Head(task_queue).handler = "on_mhvsr_complete"
    /\ task_queue' = Tail(task_queue)
    /\ Dispatch(Head(task_queue))
    /\ timer' = TRUE
    /\ lastEvent' = Event(Head(task_queue).handler, Head(task_queue).arg,
                          IF raised THEN <<"raised">>
                          ELSE IF Head(task_queue).handler = "handle_error"
                               THEN <<"box:" \o Head(task_queue).arg>> ELSE <<>>)
    /\ UNCHANGED <<profileVars, threads>>

\* process_queue with nothing waiting: queue.Empty is swallowed and the next
\* tick scheduled.
process_queue_empty ==
    /\ timer
    /\ task_queue = <<>>
    /\ timer' = TRUE
    /\ UNCHANGED <<profileVars, tsVars, fetchVars, mhvsrVars, task_queue, threads,
                   lastEvent>>

\* One step of a live worker of the Shake Connection tab.
ConnWorker(t) ==
    \/ \E outcome \in {"ok", "OK", "un", "fail", "raise"} : connect_call(t, outcome)
    \/ connect_put(t)
    \/ \E outcome \in {"ok", "raise"} : disconnect_call(t, outcome)
    \/ disconnect_put(t)
    \/ \E outcome \in {"ok", "error", "raise"} : sync_time_call(t, outcome)
    \/ sync_time_put(t)

\* One step of a live multifetch_worker.
MultifetchWorker(t) ==
    \/ \E outcome \in {"ok", "missing", "mkdir_fails"} : multifetch_dir(t, outcome)
    \/ multifetch_announce(t)
    \/ \E outcome \in {"ok", "fetch_raises", "write_raises"} : multifetch_fetch(t, outcome)
    \/ multifetch_finish(t)

\* One step of a live get_waveforms_worker.
GetWaveformsWorker(t) ==
    \/ get_waveforms_announce(t)
    \/ \E outcome \in {"ok", "raise"} : get_waveforms_call(t, outcome)
    \/ get_waveforms_put(t)

\* One step of a live worker of the Single Fetch or the Multifetch tab.
FetchWorker(t) == GetWaveformsWorker(t) \/ MultifetchWorker(t)

\* One step of a live worker of the MHVSR Analysis tab.
MhvsrWorker(t) ==
    \/ \E outcome \in {"ok", "raise"} : mhvsr_call(t, outcome)
    \/ mhvsr_put(t)

\* The buttons of the Shake Connection tab.
ConnUser ==
    \/ \E host, username, password \in EntryTexts : run_connect(host, username, password)
    \/ run_disconnect
    \/ run_sync_time

\* The buttons of the Multifetch tab.
MultifetchUser ==
    \/ \E n \in -1..MaxStations : generate_station_inputs(n)
    \/ \E name, dir \in EntryTexts, port \in PortTexts, bad \in 0..MaxStations :
          run_multifetch(name, dir, port, bad)

\* The buttons of the Single Fetch and Multifetch tabs.
FetchUser ==
    \/ \E port \in PortTexts, start, end \in TimeTexts : run_get_waveforms(port, start, end)
    \/ MultifetchUser

\* The buttons of the MHVSR Analysis tab.
MhvsrUser ==
    \/ \E n \in 0..1 : select_mhvsr_files(n)
    \/ run_mhvsr_analysis

\* root.after(100, self.process_queue): the next tick.
Tick ==
    \/ \E raised \in BOOLEAN : process_queue(raised)
    \/ process_queue_empty

\* The whole workflow: all four tabs' buttons, their workers, the queue.
Next ==
    \/ ConnUser \/ FetchUser \/ MhvsrUser
    \/ Tick
    \/ \E t \in Live : ConnWorker(t) \/ FetchWorker(t) \/ MhvsrWorker(t)

Spec == Init /\ [][Next]_vars

\* The Shake Connection tab alone.
ConnNext ==
    \/ ConnUser
    \/ Tick
    \/ \E t \in Live : ConnWorker(t)

ConnSpec == Init /\ [][ConnNext]_vars

\* The tabs that make remote calls: connection, single fetch, multifetch.
RemoteNext ==
    \/ ConnUser \/ FetchUser
    \/ Tick
    \/ \E t \in Live : ConnWorker(t) \/ FetchWorker(t)

RemoteSpec == Init /\ [][RemoteNext]_vars

\* The Multifetch tab alone, for what must eventually happen.  A started
\* thread runs on until its target returns, and process_queue reschedules
\* itself every 100 ms in a finally clause; the user owes no click.
MultifetchNext ==
    \/ MultifetchUser
    \/ Tick
    \/ \E t \in Live : MultifetchWorker(t)

MultifetchSpec ==
    /\ Init
    /\ [][MultifetchNext]_vars
    /\ WF_vars(\E t \in Live : MultifetchWorker(t))
    /\ WF_vars(Tick)

\* The Multifetch and MHVSR Analysis tabs with the queue between their
\* workers and the main thread, for what must eventually happen to a message:
\* tkinter runs a scheduled after() callback as long as the main loop runs.
QueueNext ==
    \/ MultifetchUser \/ MhvsrUser
    \/ Tick
    \/ \E t \in Live : MultifetchWorker(t) \/ MhvsrWorker(t)

QueueSpec == Init /\ [][QueueNext]_vars /\ WF_vars(Tick)

\* The Single Fetch tab beside the Shake Connection tab.
SingleFetchNext ==
    \/ ConnUser
    \/ \E port \in PortTexts, start, end \in TimeTexts : run_get_waveforms(port, start, end)
    \/ Tick
    \/ \E t \in Live : ConnWorker(t) \/ GetWaveformsWorker(t)

SingleFetchSpec == Init /\ [][SingleFetchNext]_vars

\* ==================================================================== claims
\* Remote calls a worker makes for the click that started it: one, or one per
\* station of all_params.
Units(t) == IF t.kind = "multifetch" THEN t.n ELSE 1

\* A click on one of the five buttons that make remote calls.
RemoteClick ==
    \/ ConnUser
    \/ \E port \in PortTexts, start, end \in TimeTexts : run_get_waveforms(port, start, end)
    \/ \E name, dir \in EntryTexts, port \in PortTexts, bad \in 0..MaxStations :
          run_multifetch(name, dir, port, bad)

\* Thread t ends in this step.
Ends(t) == threads' = ThreadEnds(t)

\* m is the message worker t ends with: its result, or its error.
IsFinal(t, m) ==
    CASE t.kind = "connect" ->
           m \in {Msg("on_connect_result", t.res), Msg("handle_error", "Connection Error")}
      [] t.kind = "disconnect" ->
           m \in {Msg("on_disconnect_result", t.res), Msg("handle_error", "Disconnect Error")}
      [] t.kind = "set_time_utc" ->
           m \in {Msg("on_sync_time_result", t.res), Msg("handle_error", "Time Sync Error")}
      [] t.kind = "fetch_waveforms" ->
           m \in {Msg("finish_get_waveforms", ""), Msg("handle_error", "Waveform Fetch Error")}
      [] t.kind = "multifetch" ->
           IF t.pc = "dir"
           THEN m \in {Msg("update_mf_output", ""), Msg("handle_error", "Directory Error")}
           ELSE m = Msg("finish_multifetch", "")
      [] OTHER -> FALSE

\* A worker that ends without having reached its remote call: multifetch_worker
\* returning from its directory check, sync_time_worker with no communicator.
EndsBeforeCall(t) ==
    /\ t.calls = 0
    /\ \/ t.kind = "multifetch" /\ t.pc = "dir"
       \/ t.kind = "set_time_utc" /\ t.res = "raise"

\* C1 as stated: every click of Connect, Disconnect, Sync Time, Get Waveforms
\* or Fetch All starts one worker, and a worker ends having invoked its remote
\* call exactly once (once per station for Fetch All).
C1_OneCallPerClick ==
    [][/\ RemoteClick => BagCardinality(threads') = BagCardinality(threads) + 1
       /\ \A t \in Live : Ends(t) => t.calls = Units(t)]_vars

\* C1 amended: the workflow is retry-free.  No worker ever invokes its remote
\* call more than once (multifetch_worker: more than once per station); a
\* worker ends by enqueueing exactly one message, its result or its error,
\* having made its call once (per station) unless it ended before reaching the
\* call; and a click that starts no worker enqueues nothing and calls nothing.
C1_RetryFree ==
    [][/\ \A t \in BagToSet(threads') : t.calls <= Units(t)
       /\ \A t \in Live : Ends(t) =>
             /\ Len(task_queue') = Len(task_queue) + 1
             /\ SubSeq(task_queue', 1, Len(task_queue)) = task_queue
             /\ IsFinal(t, task_queue'[Len(task_queue')])
             /\ t.calls = Units(t) \/ EndsBeforeCall(t)
       /\ RemoteClick /\ BagCardinality(threads') # BagCardinality(threads) + 1
             => UNCHANGED <<threads, task_queue>>]_vars

\* C1's case: a connect() that failed and is not tried again, beside a Fetch
\* All worker that has fetched both of its stations once each.
C1_Witness ==
    /\ \E t \in Live : t.kind = "connect" /\ t.pc = "put" /\ t.res = "fail" /\ t.calls = 1
    /\ \E t \in Live : t.kind = "multifetch" /\ t.pc = "finish" /\ t.n = 2 /\ t.calls = 2

\* C2 as stated: whenever the Sync Time button is enabled there is a
\* communicator (a connect succeeded and no disconnect has completed since).
C2_SyncOnlyWhileConnected ==
    sync_time_button = "normal" => shake_communicator # NoneVal

\* Whether the items of the loaded file are the in-memory dict.
FileMatchesProfiles ==
    /\ profiles_file.state = "ok"
    /\ load_profiles(profiles_file, <<>>, <<>>).profiles = profiles
    /\ load_profiles(profiles_file, <<>>, <<>>).values = selector_values

\* C3: once the last save_profiles_to_file of a save_profile or confirmed
\* delete_profile has succeeded, profiles.json holds exactly self.profiles, the
\* combobox lists exactly its keys, and load_profiles on the file gives the
\* same dict and the same list.
C3_ProfilesPersisted ==
    lastWrite = "ok" =>
       /\ profiles_file.text = JsonDump(profiles)
       /\ selector_values = DictKeys(profiles)
       /\ Cardinality(SeqToSet(selector_values)) = Len(profiles)
       /\ FileMatchesProfiles

\* C3's case: a confirmed delete whose write succeeded, one profile left.
C3_Witness ==
    /\ lastEvent.op = "delete_profile"
    /\ lastEvent.out = <<"box:Confirm Delete:yes", "box:Success">>
    /\ lastWrite = "ok"
    /\ Len(profiles) = 1

\* C4: right after on_profile_select of a profile P saved in this run, each of
\* the 14 entries holds the text it held when P was last saved.
C4_SaveSelectRoundTrip ==
    (lastEvent.op = "on_profile_select" /\ savedForm[lastEvent.arg] # <<>>)
       => entries = savedForm[lastEvent.arg][1]

\* C4's case: selecting P has put back an entry saved empty, while the other
\* profile holds a typed text for the same entry.
C4_Witness ==
    /\ lastEvent.op = "on_profile_select"
    /\ focus # ""
    /\ entries[focus] = ""
    /\ \E other \in ProfileNames \ {lastEvent.arg} :
          DictHas(profiles, other) /\ DictGet(profiles, other)[focus] = "x"

\* C5: right after save_profile for a name P with "Remember SSH Credentials"
\* unticked, the keyring holds nothing under P and the save has gone through:
\* P is a profile, the combobox shows it, and the success box was shown.
C5_UncheckedSaveDeletesPassword ==
    (lastEvent.op = "save_profile" /\ Truthy(lastEvent.arg) /\ ~remember_ssh_var) =>
       /\ lastEvent.arg \notin DOMAIN keyring
       /\ DictHas(profiles, lastEvent.arg)
       /\ profile_selector = lastEvent.arg
       /\ lastEvent.out[Len(lastEvent.out)] = "box:Success"

\* C5's case: such a save that found a stored password and deleted it.
C5_Witness ==
    /\ lastEvent.op = "save_profile"
    /\ ~remember_ssh_var
    /\ lastEvent.out[1] = "log:Deleted password"
    /\ DOMAIN keyring # {}

\* C6: the keyring holds a password only under the name of an existing
\* profile; a confirmed delete_profile of P leaves neither the profile nor a
\* password under P; a declined one changes nothing.
C6_PasswordsOnlyForProfiles ==
    /\ DOMAIN keyring \subseteq SeqToSet(DictKeys(profiles))
    /\ [][/\ (DOMAIN keyring' \subseteq SeqToSet(DictKeys(profiles')))
          /\ (lastEvent'.op = "delete_profile" /\ lastEvent'.out[1] = "box:Confirm Delete:yes"
              /\ Len(lastEvent'.out) > 1)
                => (~DictHas(profiles', lastEvent'.arg) /\ lastEvent'.arg \notin DOMAIN keyring')
          /\ (lastEvent'.op = "delete_profile" /\ lastEvent'.out = <<"box:Confirm Delete:no">>)
                => UNCHANGED <<profileVars, workVars>>]_vars

\* C6's case: a confirmed delete that removed a stored password, while the
\* other profile keeps its own.
C6_Witness ==
    /\ lastEvent.op = "delete_profile"
    /\ lastEvent.out[1] = "box:Confirm Delete:yes"
    /\ Len(lastEvent.out) > 1
    /\ lastEvent.out[2] = "log:Deleted password"
    /\ DOMAIN keyring # {}

\* C7 as stated: after a failed connection attempt, reported by
\* on_connect_result or by handle_error("Connection Error"), the status is
\* "Failed", Connect is enabled, Sync Time and Disconnect are disabled and
\* there is no communicator.
C7_FailedConnectSameState ==
    (\/ lastEvent.op = "on_connect_result" /\ lastEvent.arg = "fail"
     \/ lastEvent.op = "handle_error" /\ lastEvent.arg = "Connection Error") =>
       /\ ts_status = "Failed"
       /\ connect_button = "normal"
       /\ sync_time_button = "disabled"
       /\ disconnect_button = "disabled"
       /\ shake_communicator = NoneVal

\* C8 as stated: every multifetch run that is started (run_multifetch has
\* disabled the Fetch All Waveforms button) is followed by a state in which
\* the button is enabled again.
C8_FetchAllReenabled ==
    (mf_fetch_all_button = "disabled") ~> (mf_fetch_all_button = "normal")

\* An MHVSR worker is in flight: running, or its message not yet dispatched.
MhvsrInFlight ==
    \/ \E t \in Live : t.kind = "mhvsr"
    \/ \E i \in 1..Len(task_queue) :
          task_queue[i] \in {Msg("on_mhvsr_complete", ""), Msg("handle_error", "MHVSR Error")}

\* C9 as stated: the Run MHVSR Analysis button is disabled whenever an MHVSR
\* worker is in flight.
C9_MhvsrDisabledInFlight == MhvsrInFlight => run_mhvsr_button = "disabled"

\* C10 as stated: right after on_profile_select of a profile P the password
\* entry holds P's stored password, or nothing when none is stored.
C10_SelectLoadsPassword ==
    (lastEvent.op = "on_profile_select" /\ DictHas(profiles, lastEvent.arg)) =>
       ts_password_entry = IF lastEvent.arg \in DOMAIN keyring
                           THEN keyring[lastEvent.arg] ELSE ""

\* A step that takes the message at the head of the queue.
TakesHead == task_queue # <<>> /\ task_queue' = Tail(task_queue)

\* C11: the queue is first-in first-out and never stalls.  process_queue is
\* scheduled in every state, also after an empty tick and after a handler that
\* raised; the queue changes only by a worker appending at its tail or by one
\* tick taking exactly its head message and running that message's handler;
\* and either messages are taken again and again or the queue stays empty, so
\* every message moves to the head and is dispatched, once.
C11_QueueDispatch ==
    /\ [](timer)
    /\ [][task_queue' # task_queue =>
            \/ /\ Len(task_queue') > Len(task_queue)
               /\ SubSeq(task_queue', 1, Len(task_queue)) = task_queue
               /\ lastEvent' = lastEvent
            \/ /\ TakesHead
               /\ lastEvent'.op = Head(task_queue).handler
               /\ lastEvent'.arg = Head(task_queue).arg
               /\ threads' = threads]_vars
    /\ ([]<><<TakesHead>>_vars \/ <>[](task_queue = <<>>))

\* C11's case: on_mhvsr_complete has just raised while a later message waits,
\* and the next tick is scheduled.
C11_Witness ==
    /\ lastEvent.op = "on_mhvsr_complete"
    /\ lastEvent.out = <<"raised">>
    /\ task_queue # <<>>
    /\ timer

\* The final messages of connect_worker and disconnect_worker.
ConnChangeMsg(m) ==
    \/ m.handler \in {"on_connect_result", "on_disconnect_result"}
    \/ m \in {Msg("handle_error", "Connection Error"), Msg("handle_error", "Disconnect Error")}

\* Connect and disconnect workers in flight: running, or their final
\* message not yet dispatched.
ConnChangesInFlight ==
    BagCardinality([t \in {u \in Live : u.kind \in {"connect", "disconnect"}} |-> threads[t]])
    + Cardinality({i \in 1..Len(task_queue) : ConnChangeMsg(task_queue[i])})

\* C12: while a connect or disconnect worker is in flight the Connect button
\* is disabled; Connect and Disconnect are never both enabled; and at most
\* one connect or disconnect worker is in flight.
C12_OneConnectionChange ==
    /\ ConnChangesInFlight > 0 => connect_button = "disabled"
    /\ ~(connect_button = "normal" /\ disconnect_button = "normal")
    /\ ConnChangesInFlight <= 1

\* C12's case: a disconnect worker has made its call and not yet reported,
\* beside a sync worker started before Disconnect was clicked.
C12_Witness ==
    /\ \E t \in Live : t.kind = "disconnect" /\ t.pc = "put"
    /\ \E t \in Live : t.kind = "set_time_utc"
    /\ connect_button = "disabled"

\* The results of connect() whose text has "successful" in it, in any case.
SuccessfulResults == {"ok", "OK", "un"}

\* A sync worker is in flight.
SyncInFlight ==
    \/ \E t \in Live : t.kind = "set_time_utc"
    \/ \E i \in 1..Len(task_queue) :
          \/ task_queue[i].handler = "on_sync_time_result"
          \/ task_queue[i] = Msg("handle_error", "Time Sync Error")

\* Sync Time and Disconnect are disabled and nothing is on its way that
\* enables them but a result of connect().
NotYetConnected ==
    sync_time_button = "disabled" /\ disconnect_button = "disabled" /\ ~SyncInFlight

\* This step dispatches on_connect_result with a successful result.
DispatchesSuccess ==
    /\ TakesHead
    /\ Head(task_queue).handler = "on_connect_result"
    /\ Head(task_queue).arg \in SuccessfulResults

\* C13: right after on_connect_result, if the result text contains
\* "successful" in any case the status is "Connected", Sync Time and
\* Disconnect are enabled, Connect is disabled and the communicator is the one
\* run_connect created; if it does not, the attempt has failed.  Sync Time and
\* Disconnect are disabled at start-up, and only the dispatch of a successful
\* result ends the phase in which they are.
C13_SuccessfulExactly ==
    /\ NotYetConnected
    /\ [](lastEvent.op = "on_connect_result" =>
            IF lastEvent.arg \in SuccessfulResults
            THEN /\ ts_status = "Connected"
                 /\ sync_time_button = "normal"
                 /\ disconnect_button = "normal"
                 /\ connect_button = "disabled"
                 /\ shake_communicator # NoneVal
            ELSE /\ ts_status = "Failed"
                 /\ shake_communicator = NoneVal)
    /\ [][/\ DispatchesSuccess =>
               (connect_button = "disabled" /\ shake_communicator' = shake_communicator)
          /\ (NotYetConnected /\ ~NotYetConnected') => DispatchesSuccess]_vars

\* C13's case: a result in capitals has been taken as a success.
C13_Witness ==
    /\ lastEvent.op = "on_connect_result"
    /\ lastEvent.arg = "OK"
    /\ ts_status = "Connected"

\* C14: right after run_disconnect, Disconnect and Sync Time are disabled; a
\* disconnect() that returns makes the worker enqueue on_disconnect_result;
\* and right after on_disconnect_result the status is "Disconnected", Connect
\* is enabled, Sync Time and Disconnect are disabled and there is no
\* communicator.
C14_DisconnectResets ==
    /\ [](lastEvent.op = "run_disconnect" =>
            (disconnect_button = "disabled" /\ sync_time_button = "disabled"))
    /\ [](lastEvent.op = "on_disconnect_result" =>
            /\ ts_status = "Disconnected"
            /\ connect_button = "normal"
            /\ sync_time_button = "disabled"
            /\ disconnect_button = "disabled"
            /\ shake_communicator = NoneVal)
    /\ [][\A t \in Live :
             (Ends(t) /\ t.kind = "disconnect" /\ t.res # "raise") =>
                task_queue' = Append(task_queue, Msg("on_disconnect_result", t.res))]_vars

\* C14's case: on_disconnect_result has run while a sync worker started
\* before the click is still running.
C14_Witness ==
    /\ lastEvent.op = "on_disconnect_result"
    /\ ts_status = "Disconnected"
    /\ \E t \in Live : t.kind = "set_time_utc"

\* C15: a click on Connect with the host, the username or the password entry
\* empty shows "All fields are required." and changes nothing else: no
\* worker, no message, and shake_communicator, the status and the three
\* buttons as they were.
C15_AllFieldsRequired ==
    [][\A host, username, password \in EntryTexts :
          (run_connect(host, username, password) /\ "" \in {host, username, password}) =>
             /\ lastEvent'.out = <<"box:All fields are required.">>
             /\ UNCHANGED <<shake_communicator, ts_status, connect_button,
                            sync_time_button, disconnect_button, threads, task_queue>>]_vars

\* C15's case: such a click after an attempt that failed.
C15_Witness ==
    /\ lastEvent.op = "run_connect"
    /\ lastEvent.out = <<"box:All fields are required.">>
    /\ ts_status = "Failed"

\* A single-fetch worker is in flight: running, or its finish or error
\* message not yet dispatched.
FetchInFlight ==
    \/ \E t \in Live : t.kind = "fetch_waveforms"
    \/ \E i \in 1..Len(task_queue) :
          task_queue[i] \in {Msg("finish_get_waveforms", ""),
                             Msg("handle_error", "Waveform Fetch Error")}

\* C16: the Get Waveforms button is disabled exactly while a single-fetch
\* worker is in flight; it is enabled right after finish_get_waveforms and
\* right after handle_error("Waveform Fetch Error"); and a click with a port
\* that is no integer or a start or end time that does not parse starts no
\* worker, enqueues nothing and leaves the button enabled.
C16_GetWaveformsButton ==
    /\ [](FetchInFlight <=> get_waveforms_button = "disabled")
    /\ []((\/ lastEvent.op = "finish_get_waveforms"
           \/ lastEvent.op = "handle_error" /\ lastEvent.arg = "Waveform Fetch Error")
             => get_waveforms_button = "normal")
    /\ [][\A port \in PortTexts, start, end \in TimeTexts :
            (/\ run_get_waveforms(port, start, end)
             /\ ~(IsIntText(port) /\ IsTimeText(start) /\ IsTimeText(end))) =>
               /\ UNCHANGED <<threads, task_queue>>
               /\ get_waveforms_button' = "normal"]_vars

\* C16's case: a fetch that raised has been reported and the button is
\* enabled again, while a worker of the connection tab is still running.
C16_Witness ==
    /\ lastEvent.op = "handle_error"
    /\ lastEvent.arg = "Waveform Fetch Error"
    /\ get_waveforms_button = "normal"
    /\ Live # {}

====
